---- MODULE Spec2Model ----
(***************************************************************************)
(* Model of psycopg/types/ltree.py: the Ltree and Lquery tuple wrappers,   *)
(* the Star quantifier, and the text dumper / loader.                      *)
(*                                                                         *)
(* A Python str is a sequence of one-character strings.  Python values are *)
(* records tagged by their type in field k.                                *)
(***************************************************************************)
EXTENDS Integers, Sequences, FiniteSets, TLC

\* ---------------------------------------------------------------- bounds
MaxStrLen == 2
MaxPathLen == 3
MaxArgs == 2
MaxTerms == 3
MaxTextBound == 1
MaxStarBound == 3
MaxMerged == 2
RecursionLimit == 4

\* ------------------------------------------------------- characters, str
Digits == <<"0", "1", "2", "3", "4", "5", "6", "7", "8", "9">>

DigitChars == {Digits[i] : i \in 1..10}

\* the characters the bounded inputs draw from, with their code points
Ord == [c \in {"\n", "*", ",", "-", ".", "_", "a", "b", "{", "|", "}"} \cup DigitChars |->
          CASE c = "\n" -> 10
            [] c = "*" -> 42
            [] c = "," -> 44
            [] c = "-" -> 45
            [] c = "." -> 46
            [] c = "_" -> 95
            [] c = "a" -> 97
            [] c = "b" -> 98
            [] c = "{" -> 123
            [] c = "|" -> 124
            [] c = "}" -> 125
            [] OTHER -> 48 + (CHOOSE i \in 0..9 : Digits[i + 1] = c)]

Chars == DOMAIN Ord

Chr(n) == CHOOSE c \in Chars : Ord[c] = n

\* [a-zA-Z0-9_] restricted to Chars
LtreeClass == {"a", "b", "_"} \cup DigitChars

\* [a-zA-Z0-9_\|] restricted to Chars
LqueryClass == LtreeClass \cup {"|"}

\* Python's  s1 < s2  on str: lexicographic by code point, a strict prefix is less
RECURSIVE StrLt(_, _)
StrLt(s1, s2) ==
  IF s2 = <<>> THEN FALSE
  ELSE IF s1 = <<>> THEN TRUE
  ELSE IF Ord[Head(s1)] # Ord[Head(s2)] THEN Ord[Head(s1)] < Ord[Head(s2)]
  ELSE StrLt(Tail(s1), Tail(s2))

\* tuple.__lt__ on tuples of str
RECURSIVE TupleLt(_, _)
TupleLt(t1, t2) ==
  IF t2 = <<>> THEN FALSE
  ELSE IF t1 = <<>> THEN TRUE
  ELSE IF Head(t1) # Head(t2) THEN StrLt(Head(t1), Head(t2))
  ELSE TupleLt(Tail(t1), Tail(t2))

\* str.split("."): always at least one piece
RECURSIVE SplitAcc(_, _)
SplitAcc(s, cur) ==
  IF s = <<>> THEN <<cur>>
  ELSE IF Head(s) = "." THEN <<cur>> \o SplitAcc(Tail(s), <<>>)
  ELSE SplitAcc(Tail(s), Append(cur, Head(s)))

Split(s) == SplitAcc(s, <<>>)

\* ".".join(pieces)
RECURSIVE Join(_)
Join(pieces) ==
  IF pieces = <<>> THEN <<>>
  ELSE IF Len(pieces) = 1 THEN pieces[1]
  ELSE pieces[1] \o <<".">> \o Join(Tail(pieces))

\* int(digits)
RECURSIVE IntOf(_)
IntOf(ds) ==
  IF ds = <<>> THEN 0
  ELSE 10 * IntOf(SubSeq(ds, 1, Len(ds) - 1)) + (Ord[ds[Len(ds)]] - 48)

\* "%d" % n  and  str(n)  for n >= 0
RECURSIVE IntStr(_)
IntStr(n) ==
  IF n < 10 THEN <<Digits[n + 1]>>
  ELSE IntStr(n \div 10) \o <<Digits[(n % 10) + 1]>>

\* str.encode("utf8") / bytes.decode("utf8") on the ASCII characters of Chars
Utf8Encode(s) == [i \in 1..Len(s) |-> Ord[s[i]]]

Utf8Decode(b) == [i \in 1..Len(b) |-> Chr(b[i])]

\* a pattern  ^...$  under re.match: $ also matches before a final newline
BeforeDollar(s) ==
  IF s # <<>> /\ s[Len(s)] = "\n" THEN {s, SubSeq(s, 1, Len(s) - 1)} ELSE {s}

AllIn(s, class) == \A i \in 1..Len(s) : s[i] \in class

re_ltree(s) == \E body \in BeforeDollar(s) : body # <<>> /\ AllIn(body, LtreeClass)

re_lquery(s) == \E body \in BeforeDollar(s) : body # <<>> /\ AllIn(body, LqueryClass)

\* ------------------------------------------------------- Python values
\* the None bound of a Star (Optional[int]); no int bound is negative
None == -1

PyNone == [k |-> "None"]

PyStr(s) == [k |-> "str", s |-> s]

PyInt(n) == [k |-> "int", n |-> n]

PyList(v) == [k |-> "list", v |-> v]

ValueError(s) == [k |-> "ValueError", s |-> s]

IsError(r) == r.k = "ValueError"

\* ----------------------------------------------------------------- Star
\* Star.__new__: a falsy bound (None or 0) is stored as None
Star(min, max) ==
  [k |-> "Star",
   min |-> IF min = None \/ min = 0 THEN None ELSE min,
   max |-> IF max = None \/ max = 0 THEN None ELSE max]

\* re_star: the inner text of *{...} as  \d+  (group 2)
StarExact(inner) == inner # <<>> /\ AllIn(inner, DigitChars)

\* re_star: the positions of the comma in  \d*,\d*  (groups 3 and 4)
StarCommas(inner) ==
  {i \in 1..Len(inner) :
     /\ inner[i] = ","
     /\ AllIn(SubSeq(inner, 1, i - 1), DigitChars)
     /\ AllIn(SubSeq(inner, i + 1, Len(inner)), DigitChars)}

StarBodyMatch(body) ==
  \/ body = <<"*">>
  \/ /\ Len(body) >= 3
     /\ body[1] = "*" /\ body[2] = "{" /\ body[Len(body)] = "}"
     /\ LET inner == SubSeq(body, 3, Len(body) - 1)
        IN  StarExact(inner) \/ StarCommas(inner) # {}

\* Star.parse: the Star of a wildcard text, PyNone when re_star does not match
StarParse(s) ==
  IF \A body \in BeforeDollar(s) : ~StarBodyMatch(body) THEN PyNone
  ELSE LET body == CHOOSE b \in BeforeDollar(s) : StarBodyMatch(b)
           inner == SubSeq(body, 3, Len(body) - 1)
       IN  IF body = <<"*">> THEN Star(None, None)
           ELSE IF StarExact(inner) THEN Star(IntOf(inner), IntOf(inner))
           ELSE LET i == CHOOSE j \in StarCommas(inner) : TRUE
                    _min == SubSeq(inner, 1, i - 1)
                    _max == SubSeq(inner, i + 1, Len(inner))
                IN  Star(IF _min # <<>> THEN IntOf(_min) ELSE None,
                         IF _max # <<>> THEN IntOf(_max) ELSE None)

\* merge with a None max counted as 0, the way the mins are
StarMerge_maxAsMin(self, other) ==
  LET smin == (IF self.min = None THEN 0 ELSE self.min)
                + (IF other.min = None THEN 0 ELSE other.min)
      smax == (IF self.max = None THEN 0 ELSE self.max)
                + (IF other.max = None THEN 0 ELSE other.max)
  IN  Star(smin, smax)

\* Star.merge
StarMerge(self, other) ==
  LET smin == (IF self.min = None THEN 0 ELSE self.min)
                + (IF other.min = None THEN 0 ELSE other.min)
      min == IF smin = 0 THEN None ELSE smin
      max == IF self.max = None \/ other.max = None THEN None
             ELSE self.max + other.max
  IN  Star(min, max)

\* Star.__str__
StarStr(self) ==
  IF self.min = None /\ self.max = None THEN <<"*">>
  ELSE IF self.min # None /\ self.max # None
       THEN IF self.min = self.max
            THEN <<"*", "{">> \o IntStr(self.min) \o <<"}">>
            ELSE <<"*", "{">> \o IntStr(self.min) \o <<",">> \o IntStr(self.max) \o <<"}">>
  ELSE IF self.min # None
       THEN <<"*", "{">> \o IntStr(self.min) \o <<",", "}">>
  ELSE <<"*", "{", ",">> \o IntStr(self.max) \o <<"}">>

\* ---------------------------------------------------------------- Ltree
\* Ltree.__str__ / Lquery.__str__ element:  str(i)
ElemStr(i) == IF i.k = "Star" THEN StarStr(i) ELSE i.s

\* Ltree.__str__
LtreeStr(self) == Join(self.v)

\* Lquery.__str__
LqueryStr(self) == Join([i \in 1..Len(self.v) |-> ElemStr(self.v[i])])

\* str(x) for the values _label stringifies
PyStrOf(x) ==
  CASE x.k = "str" -> x.s
    [] x.k = "int" -> IntStr(x.n)
    [] x.k = "Star" -> StarStr(x)
    [] x.k = "Ltree" -> LtreeStr(x)
    [] x.k = "Lquery" -> LqueryStr(x)

\* the body of the loop over args in __new__: the candidate labels of one arg
Pieces(arg) ==
  CASE arg.k = "str" -> [i \in 1..Len(Split(arg.s)) |-> PyStr(Split(arg.s)[i])]
    [] arg.k = "Ltree" -> [i \in 1..Len(arg.v) |-> PyStr(arg.v[i])]
    [] arg.k \in {"list", "tuple", "Lquery"} -> arg.v
    [] OTHER -> <<arg>>

RECURSIVE Flatten(_)
Flatten(args) ==
  IF args = <<>> THEN <<>> ELSE Pieces(Head(args)) \o Flatten(Tail(args))

\* the first exception raised while the labels are produced, in order
FirstError(labs) == labs[CHOOSE i \in 1..Len(labs) :
                           /\ IsError(labs[i])
                           /\ \A j \in 1..(i - 1) : ~IsError(labs[j])]

IsKept(lab) == lab.k # "None"

\* _label without the  s == ""  test: an empty piece reaches the regex
LtreeLabelStr_keepsEmpty(s) ==
  IF re_ltree(s) THEN PyStr(s) ELSE ValueError(s)

\* Ltree.__new__._label on a str
LtreeLabelStr(s) ==
  IF s = <<>> THEN PyNone
  ELSE IF re_ltree(s) THEN PyStr(s)
  ELSE ValueError(s)

\* Ltree.__new__._label
LtreeLabel(s) ==
  IF s.k = "None" THEN PyNone
  ELSE IF s.k = "str" THEN LtreeLabelStr(s.s)
  ELSE LtreeLabelStr(PyStrOf(s))

\* Ltree.__new__: _label applied to every candidate, in order
LtreeLabels(cands) == [i \in 1..Len(cands) |-> LtreeLabel(cands[i])]

\* Ltree.__new__: the tuple of the labels that are not None
LtreeOfLabels(labels) ==
  IF \E i \in 1..Len(labels) : IsError(labels[i]) THEN FirstError(labels)
  ELSE LET kept == SelectSeq(labels, IsKept)
       IN  [k |-> "Ltree", v |-> [i \in 1..Len(kept) |-> kept[i].s]]

\* Ltree.__new__
LtreeNew(args) ==
  CHOOSE self \in {LtreeOfLabels(labels) :
                     labels \in {LtreeLabels(cands) : cands \in {Flatten(args)}}} : TRUE

PyBool(b) == [k |-> "bool", b |-> b]

PyTuple(v) == [k |-> "tuple", v |-> v]

\* __eq__ without the str branch: every right-hand side is coerced
LtreeEq_coercesStr(self, other) ==
  IF other.k = "Ltree" THEN PyBool(self.v = other.v)
  ELSE LET o == LtreeNew(<<other>>)
       IN  IF IsError(o) THEN o ELSE PyBool(self.v = o.v)

\* Ltree.__eq__
LtreeEq(self, other) ==
  IF other.k = "Ltree" THEN PyBool(self.v = other.v)
  ELSE IF other.k = "str" THEN PyBool(LtreeStr(self) = other.s)
  ELSE LET o == LtreeNew(<<other>>)
       IN  IF IsError(o) THEN o ELSE PyBool(self.v = o.v)

\* __lt__ without the str branch: every right-hand side is coerced
LtreeLt_coercesStr(self, other) ==
  IF other.k = "Ltree" THEN PyBool(TupleLt(self.v, other.v))
  ELSE LET o == LtreeNew(<<other>>)
       IN  IF IsError(o) THEN o ELSE PyBool(TupleLt(self.v, o.v))

\* Ltree.__lt__
LtreeLt(self, other) ==
  IF other.k = "Ltree" THEN PyBool(TupleLt(self.v, other.v))
  ELSE IF other.k = "str" THEN PyBool(StrLt(LtreeStr(self), other.s))
  ELSE LET o == LtreeNew(<<other>>)
       IN  IF IsError(o) THEN o ELSE PyBool(TupleLt(self.v, o.v))

\* self != other: Ltree defines no __ne__, so tuple.__ne__ is found first in
\* the MRO; it compares elementwise against a tuple and is NotImplemented
\* otherwise, and then the reflected __ne__ of str, list, int and None is
\* NotImplemented too and the default  self is not other  answers
LtreeNe(self, other) ==
  IF other.k \in {"Ltree", "tuple"}
  THEN PyBool(Pieces(self) # Pieces(other))
  ELSE PyBool(TRUE)

\* Ltree.__add__
LtreeAdd(self, other) == LtreeNew(<<self, other>>)

\* Ltree.__radd__
LtreeRadd(self, other) == LtreeNew(<<other, self>>)

\* tuple.__getitem__(self, slice(start, stop, step)) for 0 <= start, stop <= len
RECURSIVE TupleSlice(_, _, _, _)
TupleSlice(v, start, stop, step) ==
  IF start >= stop THEN <<>>
  ELSE <<v[start + 1]>> \o TupleSlice(v, start + step, stop, step)

\* Ltree.__getitem__ with a slice
LtreeGetSlice(self, start, stop, step) ==
  LET items == TupleSlice(self.v, start, stop, step)
  IN  LtreeNew(<<PyTuple([i \in 1..Len(items) |-> PyStr(items[i])])>>)

\* --------------------------------------------------------------- Lquery
\* Lquery.__new__._label on a str
LqueryLabelStr(s) ==
  IF s = <<>> THEN PyNone
  ELSE IF re_lquery(s) THEN PyStr(s)
  ELSE IF StarParse(s) # PyNone THEN StarParse(s)
  ELSE ValueError(s)

\* Lquery.__new__._label
LqueryLabel(s) ==
  IF s.k = "None" THEN PyNone
  ELSE IF s.k = "str" THEN LqueryLabelStr(s.s)
  ELSE LqueryLabelStr(PyStrOf(s))

\* Lquery._merge_labels, the body of the loop: rv after the label i
MergeStep(rv, i) ==
  IF i.k = "None" THEN rv
  ELSE IF rv = <<>> THEN <<i>>
  ELSE IF rv[Len(rv)].k = "Star" /\ i.k = "Star"
       THEN [rv EXCEPT ![Len(rv)] = StarMerge(rv[Len(rv)], i)]
  ELSE Append(rv, i)

\* Lquery._merge_labels, the loop: rv after the first n labels
RECURSIVE MergeInto(_, _)
MergeInto(labels, n) ==
  IF n = 0 THEN <<>>
  ELSE CHOOSE out \in {MergeStep(rv, labels[n]) : rv \in {MergeInto(labels, n - 1)}} : TRUE

\* _merge_labels that only drops the elided labels
_merge_labels_noMerge(labels) == SelectSeq(labels, IsKept)

\* Lquery._merge_labels
_merge_labels(labels) == MergeInto(labels, Len(labels))

\* Lquery.__new__: _label applied to every candidate, in order
LqueryLabels(cands) == [i \in 1..Len(cands) |-> LqueryLabel(cands[i])]

\* Lquery.__new__: the tuple of the merged labels
LqueryOfLabels(labels) ==
  IF \E i \in 1..Len(labels) : IsError(labels[i]) THEN FirstError(labels)
  ELSE [k |-> "Lquery", v |-> _merge_labels(labels)]

\* Lquery.__new__
LqueryNew(args) ==
  CHOOSE self \in {LqueryOfLabels(labels) :
                     labels \in {LqueryLabels(cands) : cands \in {Flatten(args)}}} : TRUE

\* Lquery.__eq__
LqueryEq(self, other) ==
  IF other.k = "Lquery" THEN PyBool(self.v = other.v)
  ELSE IF other.k = "str" THEN PyBool(LqueryStr(self) = other.s)
  ELSE LET o == LqueryNew(<<other>>)
       IN  IF IsError(o) THEN o ELSE PyBool(self.v = o.v)

\* __add__ that appends the labels of other to the stored elements of self
LqueryAdd_appends(self, other) ==
  LET o == LqueryNew(<<other>>)
  IN  IF IsError(o) THEN o ELSE [k |-> "Lquery", v |-> self.v \o o.v]

\* Lquery.__add__
LqueryAdd(self, other) == LqueryNew(<<self, other>>)

\* Lquery.__radd__
LqueryRadd(self, other) == LqueryNew(<<other, self>>)

\* Lquery.__getitem__ with a slice
LqueryGetSlice(self, start, stop, step) ==
  LqueryNew(<<PyTuple(TupleSlice(self.v, start, stop, step))>>)

\* ---------------------------------------------------------------- codec
\* BaseLtreeDumper.dump
Dump(obj) == Utf8Encode(PyStrOf(obj))

\* LtreeLoader.load, the loader register_adapters binds
Load(data) == LtreeNew(<<PyStr(Utf8Decode(data))>>)

\* ------------------------------------------------------ bounded inputs
SeqsUpTo(S, n) == UNION {[1..m -> S] : m \in 0..n}

StrAlphabet == {"a", "b", ".", "-", "\n"}

StrInputs == {PyStr(s) : s \in SeqsUpTo(StrAlphabet, MaxStrLen)}

ListElems == {PyNone, PyInt(1), PyStr(<<>>), PyStr(<<"a">>)}

ListInputs == {PyList(v) : v \in SeqsUpTo(ListElems, MaxArgs)}

LtreeInputs == {r \in {LtreeNew(<<x>>) : x \in StrInputs} : ~IsError(r)}

Inputs == {PyNone, PyInt(1)} \cup StrInputs \cup ListInputs \cup LtreeInputs

\* the arguments of a constructor call: one input, or several short ones
ArgInputs ==
  {PyNone, PyInt(1), PyStr(<<>>), PyStr(<<"a">>), PyStr(<<".">>), PyStr(<<"-">>),
   PyList(<<>>), PyList(<<PyStr(<<"b">>)>>), LtreeNew(<<PyStr(<<"a">>)>>)}

ArgLists == {<<x>> : x \in Inputs} \cup SeqsUpTo(ArgInputs, MaxArgs)

\* the bounds of the Star inputs: None or 0..MaxStarBound
StarBounds == {None} \cup 0..MaxStarBound

StarInputs == {Star(min, max) : min \in StarBounds, max \in StarBounds}

\* a bound as the text between the braces of a wildcard
BoundText(n) == IF n = None THEN <<>> ELSE IntStr(n)

TextBounds == {None} \cup 0..MaxTextBound

\* wildcard texts: *, *{n}, *{n,m} with either side possibly empty
StarTexts ==
  {<<"*">>}
  \cup {<<"*", "{">> \o IntStr(n) \o <<"}">> : n \in 0..MaxTextBound}
  \cup {<<"*", "{">> \o BoundText(n) \o <<",">> \o BoundText(m) \o <<"}">> :
          n \in TextBounds, m \in TextBounds}

BadTerms == {<<"*", "{", "}">>, <<"-">>, <<"*", "\n">>}

\* the terms a query is built up from, one by one
FusionTerms ==
  {<<"a">>, <<"b", "|", "a">>, <<"*">>, <<"*", "{", "0", "}">>,
   <<"*", "{", "1", "}">>, <<"*", "{", "2", "}">>, <<"*", "{", "1", ",", "1", "}">>,
   <<"*", "{", "1", ",", "2", "}">>, <<"*", "{", "3", ",", "}">>,
   <<"*", "{", ",", "2", "}">>, <<"*", "{", "}">>}

ShortTerms == {<<"a">>, <<"*", "{", "1", "}">>}

QueryInputs ==
  {PyNone, Star(1, None), LtreeNew(<<PyStr(<<"a">>)>>)}
  \cup {PyStr(x) : x \in {<<"a">>} \cup StarTexts \cup BadTerms}
  \cup {PyStr(Join(<<x, y>>)) : x \in ShortTerms, y \in ShortTerms}
  \cup {PyList(<<PyStr(x), PyStr(y)>>) : x \in ShortTerms, y \in ShortTerms}
  \cup {LqueryNew(<<PyStr(x), PyStr(y)>>) : x \in ShortTerms, y \in ShortTerms}

\* the arguments of an Lquery constructor call: one input, or several short ones
QueryArgInputs ==
  {PyNone, PyStr(<<>>), PyStr(<<"a">>), PyStr(<<"*">>), PyStr(<<"-">>),
   PyList(<<PyStr(<<"*", "{", "1", "}">>)>>), Star(1, None),
   LqueryNew(<<PyStr(<<"a", ".", "*">>)>>)}

QueryArgLists == {<<x>> : x \in QueryInputs} \cup SeqsUpTo(QueryArgInputs, MaxArgs)

\* ---------------------------------------------------------------- state
VARIABLES
  pc,      \* "start" | "idle" | "returned" | "hashing": where the caller is
  t,       \* the Ltree the caller holds
  q,       \* the Lquery the caller holds
  star,    \* the Star the caller holds
  terms,   \* the query terms put into q so far, one by one
  depth,   \* the number of __hash__ frames on the stack
  res      \* the call that has just returned: operation, operands, outcome

vars == <<pc, t, q, star, terms, depth, res>>

NoRes == [op |-> "none", self |-> PyNone, args |-> <<>>, out |-> PyNone]

Returned(op, self, args, out) == [op |-> op, self |-> self, args |-> args, out |-> out]

\* the outcome fits the bound on the stored path (an exception always does)
Fits(out) == IF IsError(out) THEN TRUE ELSE Len(LtreeStr(out)) <= MaxPathLen

StarFits(x) ==
  IF x.k = "Star" THEN x.min <= MaxMerged /\ x.max <= MaxMerged ELSE TRUE

\* the outcome fits the bounds on the stored elements and on their quantifiers
QueryFits(out) ==
  IF IsError(out) THEN TRUE
  ELSE Len(out.v) <= MaxTerms /\ \A i \in 1..Len(out.v) : StarFits(out.v[i])

Init ==
  /\ pc = "start"
  /\ t = LtreeNew(<<>>)
  /\ q = LqueryNew(<<>>)
  /\ star = Star(None, None)
  /\ terms = <<>>
  /\ depth = 0
  /\ res = NoRes

\* the caller drops the outcome and goes on
Return ==
  /\ pc = "returned"
  /\ pc' = "idle"
  /\ res' = NoRes
  /\ UNCHANGED <<t, q, star, terms, depth>>

\* ------------------------------------------------------ calls on an Ltree
\* t = Ltree(*args)
CallLtreeNew(args) ==
  /\ pc = "start"
  /\ \E out \in {LtreeNew(args)} :
       /\ Fits(out)
       /\ t' = IF IsError(out) THEN t ELSE out
       /\ res' = Returned("new", PyNone, args, out)
  /\ pc' = "returned"
  /\ UNCHANGED <<q, star, terms, depth>>

\* t = t + other
CallLtreeAdd(other) ==
  /\ pc = "idle"
  /\ \E out \in {LtreeAdd(t, other)} :
       /\ Fits(out)
       /\ t' = IF IsError(out) THEN t ELSE out
       /\ res' = Returned("add", t, <<other>>, out)
  /\ pc' = "returned"
  /\ UNCHANGED <<q, star, terms, depth>>

\* t = other + t
CallLtreeRadd(other) ==
  /\ pc = "idle"
  /\ \E out \in {LtreeRadd(t, other)} :
       /\ Fits(out)
       /\ t' = IF IsError(out) THEN t ELSE out
       /\ res' = Returned("radd", t, <<other>>, out)
  /\ pc' = "returned"
  /\ UNCHANGED <<q, star, terms, depth>>

\* t = t[start:stop:step]
CallLtreeGetSlice(start, stop, step) ==
  /\ pc = "idle"
  /\ \E out \in {LtreeGetSlice(t, start, stop, step)} :
       /\ t' = IF IsError(out) THEN t ELSE out
       /\ res' = Returned("slice", t, <<PyInt(start), PyInt(stop), PyInt(step)>>, out)
  /\ pc' = "returned"
  /\ UNCHANGED <<q, star, terms, depth>>

\* t == other
CallLtreeEq(other) ==
  /\ pc = "idle"
  /\ res' = Returned("eq", t, <<other>>, LtreeEq(t, other))
  /\ pc' = "returned"
  /\ UNCHANGED <<t, q, star, terms, depth>>

\* t < other
CallLtreeLt(other) ==
  /\ pc = "idle"
  /\ res' = Returned("lt", t, <<other>>, LtreeLt(t, other))
  /\ pc' = "returned"
  /\ UNCHANGED <<t, q, star, terms, depth>>

\* t != other
CallLtreeNe(other) ==
  /\ pc = "idle"
  /\ res' = Returned("ne", t, <<other>>, LtreeNe(t, other))
  /\ pc' = "returned"
  /\ UNCHANGED <<t, q, star, terms, depth>>

\* load(dump(t)): the value sent through the text codec and back
CallLtreeRoundTrip ==
  /\ pc = "idle"
  /\ res' = Returned("roundtrip", t, <<>>, Load(Dump(t)))
  /\ pc' = "returned"
  /\ UNCHANGED <<t, q, star, terms, depth>>

\* ----------------------------------------------------------- __hash__
\* hash(t) enters Ltree.__hash__
CallLtreeHash ==
  /\ pc = "idle"
  /\ pc' = "hashing"
  /\ depth' = 1
  /\ res' = Returned("hashing", t, <<>>, PyNone)
  /\ UNCHANGED <<t, q, star, terms>>

\* hash(q) enters Lquery.__hash__
CallLqueryHash ==
  /\ pc = "idle"
  /\ pc' = "hashing"
  /\ depth' = 1
  /\ res' = Returned("hashing", q, <<>>, PyNone)
  /\ UNCHANGED <<t, q, star, terms>>

RecursionError == [k |-> "RecursionError"]

\* the body of __hash__,  return hash(self) : hash looks up the __hash__ of
\* the type of self and enters it again, one frame deeper
HashBody ==
  /\ pc = "hashing"
  /\ depth < RecursionLimit
  /\ depth' = depth + 1
  /\ UNCHANGED <<pc, t, q, star, terms, res>>

\* the interpreter refuses the frame past the recursion limit: RecursionError
\* unwinds every frame and reaches the caller of hash
HashOverflow ==
  /\ pc = "hashing"
  /\ depth = RecursionLimit
  /\ depth' = 0
  /\ res' = Returned("hash", res.self, <<>>, RecursionError)
  /\ pc' = "returned"
  /\ UNCHANGED <<t, q, star, terms>>

NextLtree ==
  \/ \E args \in ArgLists : CallLtreeNew(args)
  \/ \E other \in Inputs : CallLtreeAdd(other)
  \/ \E other \in Inputs : CallLtreeRadd(other)
  \/ \E start \in 0..Len(t.v), stop \in 0..Len(t.v), step \in 1..2 :
       CallLtreeGetSlice(start, stop, step)
  \/ \E other \in Inputs : CallLtreeEq(other)
  \/ \E other \in Inputs : CallLtreeLt(other)
  \/ \E other \in Inputs : CallLtreeNe(other)
  \/ CallLtreeRoundTrip
  \/ CallLtreeHash
  \/ HashBody
  \/ HashOverflow
  \/ Return

SpecLtree == Init /\ [][NextLtree]_vars

\* ----------------------------------------------------- calls on an Lquery
\* q = Lquery(*args)
CallLqueryNew(args) ==
  /\ pc = "start"
  /\ \E out \in {LqueryNew(args)} :
       /\ QueryFits(out)
       /\ q' = IF IsError(out) THEN q ELSE out
       /\ res' = Returned("new", PyNone, args, out)
  /\ pc' = "returned"
  /\ UNCHANGED <<t, star, terms, depth>>

\* q = q + other
CallLqueryAdd(other) ==
  /\ pc = "idle"
  /\ \E out \in {LqueryAdd(q, other)} :
       /\ QueryFits(out)
       /\ q' = IF IsError(out) THEN q ELSE out
       /\ res' = Returned("add", q, <<other>>, out)
  /\ pc' = "returned"
  /\ UNCHANGED <<t, star, terms, depth>>

\* q = other + q
CallLqueryRadd(other) ==
  /\ pc = "idle"
  /\ \E out \in {LqueryRadd(q, other)} :
       /\ QueryFits(out)
       /\ q' = IF IsError(out) THEN q ELSE out
       /\ res' = Returned("radd", q, <<other>>, out)
  /\ pc' = "returned"
  /\ UNCHANGED <<t, star, terms, depth>>

\* q = q[start:stop:step]
CallLqueryGetSlice(start, stop, step) ==
  /\ pc = "idle"
  /\ \E out \in {LqueryGetSlice(q, start, stop, step)} :
       /\ QueryFits(out)
       /\ q' = IF IsError(out) THEN q ELSE out
       /\ res' = Returned("slice", q, <<PyInt(start), PyInt(stop), PyInt(step)>>, out)
  /\ pc' = "returned"
  /\ UNCHANGED <<t, star, terms, depth>>

\* load(dump(q)): the value sent through the text codec and back
CallLqueryRoundTrip ==
  /\ pc = "idle"
  /\ res' = Returned("roundtrip", q, <<>>, Load(Dump(q)))
  /\ pc' = "returned"
  /\ UNCHANGED <<t, q, star, terms, depth>>

NextLquery ==
  \/ \E args \in QueryArgLists : CallLqueryNew(args)
  \/ \E other \in QueryInputs : CallLqueryAdd(other)
  \/ \E other \in QueryInputs : CallLqueryRadd(other)
  \/ \E start \in 0..Len(q.v), stop \in 0..Len(q.v), step \in 1..2 :
       CallLqueryGetSlice(start, stop, step)
  \/ CallLqueryRoundTrip
  \/ CallLqueryHash
  \/ HashBody
  \/ HashOverflow
  \/ Return

SpecLquery == Init /\ [][NextLquery]_vars

\* -------------------------------------------------- a query built up term by term
\* q = Lquery([term])
FusionStart(term) ==
  /\ pc = "start"
  /\ \E out \in {LqueryNew(<<PyList(<<PyStr(term)>>)>>)} :
       /\ q' = IF IsError(out) THEN q ELSE out
       /\ terms' = IF IsError(out) THEN terms ELSE <<term>>
       /\ pc' = IF IsError(out) THEN "start" ELSE "idle"
       /\ res' = Returned("new", PyNone, <<PyList(<<PyStr(term)>>)>>, out)
  /\ UNCHANGED <<t, star, depth>>

\* q += term
FusionAppend(term) ==
  /\ pc = "idle"
  /\ Len(terms) < MaxTerms
  /\ \E out \in {LqueryAdd(q, PyStr(term))} :
       /\ q' = IF IsError(out) THEN q ELSE out
       /\ terms' = IF IsError(out) THEN terms ELSE Append(terms, term)
       /\ res' = Returned("add", q, <<PyStr(term)>>, out)
  /\ UNCHANGED <<pc, t, star, depth>>

\* q += Lquery([term1, term2]): two terms grouped into one operand
FusionAppendGroup(term1, term2) ==
  /\ pc = "idle"
  /\ Len(terms) + 1 < MaxTerms
  /\ \E group \in {LqueryNew(<<PyList(<<PyStr(term1), PyStr(term2)>>)>>)} :
       \E out \in {IF IsError(group) THEN group ELSE LqueryAdd(q, group)} :
         /\ q' = IF IsError(out) THEN q ELSE out
         /\ terms' = IF IsError(out) THEN terms ELSE terms \o <<term1, term2>>
         /\ res' = Returned("add", q, <<group>>, out)
  /\ UNCHANGED <<pc, t, star, depth>>

NextFusion ==
  \/ \E term \in FusionTerms : FusionStart(term)
  \/ \E term \in FusionTerms : FusionAppend(term)
  \/ \E term1 \in FusionTerms, term2 \in FusionTerms : FusionAppendGroup(term1, term2)

SpecFusion == Init /\ [][NextFusion]_vars

\* ------------------------------------------------------- calls on a Star
\* star = Star(min, max)
CallStarNew(min, max) ==
  /\ pc = "start"
  /\ star' = Star(min, max)
  /\ res' = Returned("star", PyNone, <<PyInt(min), PyInt(max)>>, Star(min, max))
  /\ pc' = "returned"
  /\ UNCHANGED <<t, q, terms, depth>>

\* star = star.merge(other)
CallStarMerge(other) ==
  /\ pc = "idle"
  /\ \E out \in {StarMerge(star, other)} :
       /\ out.min <= 2 * MaxStarBound /\ out.max <= 2 * MaxStarBound
       /\ star' = out
       /\ res' = Returned("merge", star, <<other>>, out)
  /\ pc' = "returned"
  /\ UNCHANGED <<t, q, terms, depth>>

\* Star.parse(str(star))
CallStarParse ==
  /\ pc = "idle"
  /\ res' = Returned("parse", star, <<PyStr(StarStr(star))>>, StarParse(StarStr(star)))
  /\ pc' = "returned"
  /\ UNCHANGED <<t, q, star, terms, depth>>

NextStar ==
  \/ \E min \in StarBounds, max \in StarBounds : CallStarNew(min, max)
  \/ \E other \in StarInputs : CallStarMerge(other)
  \/ CallStarParse
  \/ Return

SpecStar == Init /\ [][NextStar]_vars

\* ------------------------------------------------------- Ltree claims
\* the text of a candidate label as _label sees it (None is elided first)
PieceText(c) == IF c.k = "None" THEN <<>> ELSE PyStrOf(c)

IsLabel(s) == s # <<>> /\ AllIn(s, LtreeClass)

\* C5: every label stored by Ltree(*args) is a non-empty string over
\* [A-Za-z0-9_], and a non-empty input piece with any other character makes
\* the construction raise ValueError.
C5_LabelsValid ==
  res.op = "new" =>
    LET cands == Flatten(res.args)
    IN  /\ (\E i \in 1..Len(cands) :
              PieceText(cands[i]) # <<>> /\ ~IsLabel(PieceText(cands[i])))
            => IsError(res.out)
        /\ IF IsError(res.out) THEN TRUE
           ELSE \A i \in 1..Len(res.out.v) : IsLabel(res.out.v[i])

\* p == Ltree(x), the right-hand side coerced first
EqCoerced(p, x) ==
  LET o == LtreeNew(<<x>>)
  IN  IF IsError(o) THEN o ELSE PyBool(p.v = o.v)

\* C6 as stated: p == x returns what p == Ltree(x) returns, for a string x
\* as for any other right-hand side.
C6_EqCoercesAll ==
  res.op = "eq" => res.out = EqCoerced(res.self, res.args[1])

\* C6 amended: p == s for a string s is True exactly when s is the
\* dot-joined rendering of p (s is not coerced); for any right-hand side
\* that is not a string, p == x returns what p == Ltree(x) returns.
C6_EqStrIsRendering ==
  res.op = "eq" =>
    IF res.args[1].k = "str"
    THEN res.out = PyBool(Join(res.self.v) = res.args[1].s)
    ELSE res.out = EqCoerced(res.self, res.args[1])

\* C6 witness: a comparison with a string that is not the rendering of p
\* although Ltree(s) equals p, and it answered False.
C6_Witness ==
  /\ res.op = "eq"
  /\ res.args[1].k = "str"
  /\ res.self.v # <<>>
  /\ EqCoerced(res.self, res.args[1]) = PyBool(TRUE)
  /\ res.out = PyBool(FALSE)

\* p < Ltree(x), the right-hand side coerced first
LtCoerced(p, x) ==
  LET o == LtreeNew(<<x>>)
  IN  IF IsError(o) THEN o ELSE PyBool(TupleLt(p.v, o.v))

\* C7 as stated: p < x holds exactly when the label tuple of p precedes the
\* label tuple of Ltree(x), for a string x as for any other right-hand side.
C7_LtCoercesAll ==
  res.op = "lt" => res.out = LtCoerced(res.self, res.args[1])

\* C7 amended: for an Ltree or a non-string raw input x, p < x holds exactly
\* when the label tuple of p precedes the label tuple of Ltree(x); for a
\* string s, p < s holds exactly when the rendering of p precedes s as text.
C7_LtStrIsText ==
  res.op = "lt" =>
    IF res.args[1].k = "str"
    THEN res.out = PyBool(StrLt(Join(res.self.v), res.args[1].s))
    ELSE res.out = LtCoerced(res.self, res.args[1])

\* C7 witness: p < s answered True for a string s with Ltree(s) equal to p.
C7_Witness ==
  /\ res.op = "lt"
  /\ res.args[1].k = "str"
  /\ res.self.v # <<>>
  /\ EqCoerced(res.self, res.args[1]) = PyBool(TRUE)
  /\ res.out = PyBool(TRUE)

InsertAt(seq, i, e) == SubSeq(seq, 1, i) \o <<e>> \o SubSeq(seq, i + 1, Len(seq))

Elided == {PyNone, PyStr(<<>>)}

\* C8: Ltree(None), Ltree(""), Ltree([]) and Ltree() are empty and render
\* to ""; an extra None or "" argument, an extra None or "" element of a
\* sequence argument, or None / "" concatenated on either side, changes
\* nothing.
C8_Elision ==
  /\ res.op = "new" =>
       /\ res.args \in {<<>>, <<PyNone>>, <<PyStr(<<>>)>>, <<PyList(<<>>)>>}
            => /\ res.out = [k |-> "Ltree", v |-> <<>>]
               /\ PyStrOf(res.out) = <<>>
       /\ \A e \in Elided : \A i \in 0..Len(res.args) :
            LtreeNew(InsertAt(res.args, i, e)) = res.out
       /\ \A e \in Elided : \A j \in 1..Len(res.args) :
            res.args[j].k = "list" =>
              \A i \in 0..Len(res.args[j].v) :
                LtreeNew([res.args EXCEPT ![j] = PyList(InsertAt(res.args[j].v, i, e))])
                  = res.out
  /\ res.op \in {"add", "radd"} =>
       (res.args[1] \in Elided => res.out = res.self)

\* C8 witness: a construction from a sequence holding None next to a label.
C8_Witness ==
  /\ res.op = "new"
  /\ \E j \in 1..Len(res.args) :
       /\ res.args[j].k = "list"
       /\ \E i \in 1..Len(res.args[j].v) : res.args[j].v[i] = PyNone
  /\ ~IsError(res.out)
  /\ res.out.v # <<>>

\* C9: p != s is the negation of p == s for every string s.
C9_NeNegatesEq ==
  (res.op = "ne" /\ res.args[1].k = "str") =>
    res.out = PyBool(LtreeEq(res.self, res.args[1]) = PyBool(FALSE))

\* ---------------------------------------------- Star and Lquery claims
IsStar(x) == x.k = "Star"

NoAdjacentStars(v) == \A i \in 1..(Len(v) - 1) : ~(IsStar(v[i]) /\ IsStar(v[i + 1]))

\* C1: no Lquery reached by construction, + , reverse + and slicing holds
\* two adjacent Star elements.
C1_NoAdjacentStars ==
  /\ NoAdjacentStars(q.v)
  /\ IF res.out.k = "Lquery" THEN NoAdjacentStars(res.out.v) ELSE TRUE

\* C1 witness: a wildcard text was added to a query ending in a Star and
\* the result has as many elements as before.
C1_Witness ==
  /\ res.op = "add"
  /\ res.self.v # <<>>
  /\ IsStar(res.self.v[Len(res.self.v)])
  /\ res.args[1].k = "str"
  /\ StarParse(res.args[1].s) # PyNone
  /\ res.out.k = "Lquery"
  /\ Len(res.out.v) = Len(res.self.v)

Zero(n) == IF n = None THEN 0 ELSE n

\* C2: a.merge(b) has the sum of the mins as min (None counted as 0, None
\* when both are None) and the sum of the maxes as max when both are
\* present, None as soon as either is None.
C2_MergeSums ==
  res.op = "merge" =>
    LET a == res.self
        b == res.args[1]
        m == res.out
    IN  /\ m.min = (IF a.min = None /\ b.min = None THEN None
                    ELSE Zero(a.min) + Zero(b.min))
        /\ m.max = (IF a.max = None \/ b.max = None THEN None
                    ELSE a.max + b.max)
        /\ (a = Star(1, 1) /\ b = Star(1, 1)) => StarStr(m) = <<"*", "{", "2", "}">>
        /\ (a = Star(1, 2) /\ b = Star(3, None)) => StarStr(m) = <<"*", "{", "4", ",", "}">>

\* C2 witness: *{1,2} merged with *{3,} gave *{4,}.
C2_Witness ==
  /\ res.op = "merge"
  /\ res.self = Star(1, 2)
  /\ res.args[1] = Star(3, None)
  /\ res.out = Star(4, None)

\* the Lquery built from all the terms in one construction
Single(ts) == LqueryNew(<<PyList([i \in 1..Len(ts) |-> PyStr(ts[i])])>>)

\* C3: the query built up from t1..tk by + , one term or one group at a
\* time, equals Lquery([t1..tk]); a wildcard added after a trailing
\* wildcard is merged into it, not stored as a new element.
C3_IncrementalIsSingle ==
  /\ terms # <<>> => q = Single(terms)
  /\ (/\ res.op = "add"
      /\ res.out.k = "Lquery"
      /\ res.self.v # <<>>
      /\ IsStar(res.self.v[Len(res.self.v)])
      /\ res.args[1].k = "str"
      /\ StarParse(res.args[1].s) # PyNone)
     => /\ Len(res.out.v) = Len(res.self.v)
        /\ res.out.v[Len(res.out.v)]
             = StarMerge(res.self.v[Len(res.self.v)], StarParse(res.args[1].s))

\* C3 witness: three terms are in and fusion left fewer elements than
\* terms, the last call being a + that succeeded.
C3_Witness ==
  /\ Len(terms) = 3
  /\ Len(q.v) < Len(terms)
  /\ res.op = "add"
  /\ res.out = q

\* v == other as the type of v computes it
ValueEq(v, other) == IF v.k = "Lquery" THEN LqueryEq(v, other) ELSE LtreeEq(v, other)

\* C4: decoding the encoding of an Ltree or Lquery v gives a value of the
\* type of v that is equal to v.
C4_RoundTrip ==
  res.op = "roundtrip" =>
    IF IsError(res.out) THEN FALSE
    ELSE res.out.k = res.self.k /\ ValueEq(res.self, res.out) = PyBool(TRUE)

\* C10: hash(v) returns an integer.
C10_HashReturnsInt ==
  res.op = "hash" => res.out.k = "int"

====
